---- MODULE Spec2Model ----
(***************************************************************************)
(* A model of the chess rules engine of gamelib-chess: chess/model.py.     *)
(* The grid holds piece entity ids (0 is None), info maps each live        *)
(* entity to its PieceInfo component.  Pure queries of the Board are       *)
(* operators over (grid, info); Board.make_move is the action MakeMove.    *)
(***************************************************************************)
EXTENDS Integers, Sequences, FiniteSets, TLC

VARIABLES
    board,           \* Board._board: board[rank][file] is an entity id, 0 for None
    info,            \* PieceInfo of every live Piece entity, by entity id
    turn,            \* Board._turn
    winner,          \* Board.winner
    previous_move,   \* Board.previous_move
    prev_positions,  \* Board._prev_positions: signature -> count
    white_king,      \* Board._white_king (entity id)
    black_king,      \* Board._black_king (entity id)
    next_id,         \* id the next created entity gets
    raised,          \* exception that escaped make_move, "none" if none did
    occurrences,     \* history: how many make_move calls produced each signature
    last,            \* history: the last make_move call, as seen before it ran
    moved,           \* history: the entities make_move has moved
    ply,             \* history: number of make_move calls explored so far
    horizon,         \* exploration stops after this many make_move calls
    scene_player,    \* GameScene.player: the side of the human
    selected,        \* GameScene.selected (entity id, 0 for None)
    promotion_pending,  \* GameScene._promotion_pending (a Move or NoMove)
    promotion_props, \* GameScene._promotion_props: kinds of the pieces offered
    opponent,        \* "debug" for DebugOpponent, "stockfish" for StockfishOpponent
    thinking,        \* Opponent.thinking
    opp_move,        \* Opponent.move (a Move or NoMove)
    opp_selected,    \* DebugOpponent.selected (entity id, 0 for None)
    worker,          \* the scheduled Opponent.think: "idle", "running", "failed"
    event,           \* history: the last click handled or worker step
    tasks,           \* history: think tasks scheduled in this turn of the opponent
    fade_opacity,    \* GameScene._fade_opacity, in hundredths
    game_over,       \* GameScene.game_over
    wire_move,       \* the Move given to Stockfish.make_move
    wire_str,        \* the move string it builds, a sequence of characters
    wire_out,        \* what the parsing of Stockfish.get_best_move makes of it
    wire_pc          \* "move", "sent", "parsed"

boardVars == <<board, info, turn, winner, previous_move, prev_positions,
               white_king, black_king, next_id, raised, occurrences, last,
               moved, ply, horizon>>

sceneVars == <<scene_player, selected, promotion_pending, promotion_props, opponent,
               thinking, opp_move, opp_selected, worker, event, tasks,
               fade_opacity, game_over>>

wireVars == <<wire_move, wire_str, wire_out, wire_pc>>

vars == <<boardVars, sceneVars, wireVars>>

----------------------------------------------------------------------------
(* Bounds of the exploration *)

\* make_move calls explored from the standard layout and from the open
\* positions, from the pawn endings, and from the locked positions
WidePlies == 1
\* and from the capture that draws, so that the reply to it is looked at
DrawnPlies == 2
MidPlies == 3
LockedPlies == 5

----------------------------------------------------------------------------
(* Player, Move, None *)

WHITE == "WHITE"
BLACK == "BLACK"
DRAW == "DRAW"
None == "None"
NoPiece == 0

Other(player) == IF player = WHITE THEN BLACK ELSE WHITE

Move(fi, ri, ft, rt, cap) ==
    [initial_file |-> fi, initial_rank |-> ri,
     target_file |-> ft, target_rank |-> rt,
     capture |-> cap, promotion |-> None]

NoMove == Move(0, 0, 0, 0, NoPiece)

PromotionKinds == {"Queen", "Rook", "Bishop", "Knight"}

Abs(x) == IF x < 0 THEN -x ELSE x

----------------------------------------------------------------------------
(* Board queries *)

InRange(file, rank) == 1 <= file /\ file <= 8 /\ 1 <= rank /\ rank <= 8

IsEmpty(b, file, rank) ==
    IF ~InRange(file, rank) THEN TRUE ELSE b[rank][file] = NoPiece

PieceAt(b, file, rank) ==
    IF ~IsEmpty(b, file, rank) THEN b[rank][file] ELSE NoPiece

\* has_moved comparing the rank only
HasMovedRankOnly(pc) == pc.rank # pc.prev_rank

HasMoved(pc) == pc.rank # pc.prev_rank \/ pc.file # pc.prev_file

LastPieceToMove(b, pm) ==
    IF pm = NoMove THEN NoPiece ELSE PieceAt(b, pm.target_file, pm.target_rank)

KnightHops == {<<-2, -1>>, <<-2, 1>>, <<-1, -2>>, <<-1, 2>>,
               <<1, 2>>, <<1, -2>>, <<2, 1>>, <<2, -1>>}
Diags == {<<-1, -1>>, <<-1, 1>>, <<1, -1>>, <<1, 1>>}
Lines == {<<0, 1>>, <<0, -1>>, <<1, 0>>, <<-1, 0>>}

\* The ray walk of is_controlled: where the walk stops and what it holds there.
RECURSIVE RayEnd(_, _, _, _, _)
RayEnd(b, f, r, dx, dy) ==
    IF ~InRange(f, r) THEN <<f, r, NoPiece>>
    ELSE IF b[r][f] # NoPiece THEN <<f, r, b[r][f]>>
    ELSE RayEnd(b, f + dx, r + dy, dx, dy)

KnightControls(b, inf, file, rank, player) ==
    \E h \in KnightHops :
        LET piece == PieceAt(b, file + h[1], rank + h[2]) IN
        /\ piece # NoPiece
        /\ inf[piece].kind = "Knight"
        /\ inf[piece].player = player

\* the diagonal walk taking a pawn next to the square for an attacker
\* whichever way the pawn advances
DiagControlsPawnEitherWay(b, inf, file, rank, player) ==
    \E d \in Diags :
        LET e == RayEnd(b, file + d[1], rank + d[2], d[1], d[2])
            near == Abs(e[1] - file) = 1 /\ Abs(e[2] - rank) = 1
            possible_pieces ==
                {"Bishop", "Queen"}
                \cup (IF near THEN {"King", "Pawn"} ELSE {})
        IN  /\ e[3] # NoPiece
            /\ inf[e[3]].kind \in possible_pieces
            /\ inf[e[3]].player = player

DiagControls(b, inf, file, rank, player) ==
    \E d \in Diags :
        LET e == RayEnd(b, file + d[1], rank + d[2], d[1], d[2])
            forward == IF player = WHITE THEN 1 ELSE -1
            near == Abs(e[1] - file) = 1 /\ Abs(e[2] - rank) = 1
            possible_pieces ==
                {"Bishop", "Queen"}
                \cup (IF near THEN {"King"} ELSE {})
                \cup (IF near /\ e[2] = rank - forward THEN {"Pawn"} ELSE {})
        IN  /\ e[3] # NoPiece
            /\ inf[e[3]].kind \in possible_pieces
            /\ inf[e[3]].player = player

LineControls(b, inf, file, rank, player) ==
    \E d \in Lines :
        LET e == RayEnd(b, file + d[1], rank + d[2], d[1], d[2])
            possible_pieces ==
                IF Abs(e[1] - file) <= 1 /\ Abs(e[2] - rank) <= 1
                THEN {"Rook", "Queen", "King"}
                ELSE {"Queen", "Rook"}
        IN  /\ e[3] # NoPiece
            /\ inf[e[3]].kind \in possible_pieces
            /\ inf[e[3]].player = player

IsControlled(b, inf, file, rank, player) ==
    \/ KnightControls(b, inf, file, rank, player)
    \/ DiagControls(b, inf, file, rank, player)
    \/ LineControls(b, inf, file, rank, player)

\* in_check that never takes the Player.BLACK branch
InCheckWhiteKing(b, inf, player) ==
    IsControlled(b, inf, inf[white_king].file, inf[white_king].rank, BLACK)

InCheck(b, inf, player) ==
    LET king == IF player = BLACK THEN black_king ELSE white_king IN
    IsControlled(b, inf, inf[king].file, inf[king].rank, Other(player))

----------------------------------------------------------------------------
(* Speculative move and unmove *)

IsCastles(b, inf, move) ==
    LET piece == PieceAt(b, move.initial_file, move.initial_rank) IN
    /\ piece # NoPiece
    /\ inf[piece].kind = "King"
    /\ Abs(move.initial_file - move.target_file) = 2
    /\ move.initial_file = 5

IsFinalizeCastles(b, inf, move) ==
    LET piece == PieceAt(b, move.target_file, move.target_rank) IN
    /\ piece # NoPiece
    /\ inf[piece].kind = "King"
    /\ Abs(move.initial_file - move.target_file) = 2
    /\ move.initial_file = 5

GetCastlesRookMove(move) ==
    IF move.target_file = 3
    THEN Move(1, move.initial_rank, 4, move.target_rank, NoPiece)
    ELSE Move(8, move.initial_rank, 6, move.target_rank, NoPiece)

\* _swap that only writes the second cell
SwapOneWay(b, file1, rank1, file2, rank2) ==
    [b EXCEPT ![rank2][file2] = b[rank1][file1]]

Swap(b, file1, rank1, file2, rank2) ==
    LET x == b[rank1][file1]
        y == b[rank2][file2]
        b1 == [b EXCEPT ![rank1][file1] = y]
    IN  [b1 EXCEPT ![rank2][file2] = x]

\* A position is [board, info]; the result also carries the mutated Move.
RECURSIVE LogicalMove(_, _)
LogicalMove(pos, move) ==
    LET capture == PieceAt(pos.board, move.target_file, move.target_rank)
        move1 == IF capture # NoPiece THEN [move EXCEPT !.capture = capture]
                 ELSE move
        b1 == IF move1.capture # NoPiece
              THEN [pos.board EXCEPT ![pos.info[move1.capture].rank]
                                      [pos.info[move1.capture].file] = NoPiece]
              ELSE pos.board
        pos2 == IF IsCastles(b1, pos.info, move1)
                THEN LET r == LogicalMove([board |-> b1, info |-> pos.info],
                                          GetCastlesRookMove(move1))
                     IN  [board |-> r.board, info |-> r.info]
                ELSE [board |-> b1, info |-> pos.info]
        piece == PieceAt(pos2.board, move1.initial_file, move1.initial_rank)
        inf3 == [pos2.info EXCEPT ![piece].file = move1.target_file,
                                  ![piece].rank = move1.target_rank]
    IN  [board |-> Swap(pos2.board, move1.initial_file, move1.initial_rank,
                        move1.target_file, move1.target_rank),
         info |-> inf3,
         move |-> move1]

RECURSIVE LogicalUnmove(_, _)

\* _logical_unmove that does not put the captured piece back
LogicalUnmoveNoRestore(pos, move) ==
    LET inverse_move == Move(move.target_file, move.target_rank,
                             move.initial_file, move.initial_rank, NoPiece)
        r1 == LogicalMove(pos, inverse_move)
        pos1 == [board |-> r1.board, info |-> r1.info]
    IN  IF IsCastles(pos1.board, pos1.info, move)
        THEN LogicalUnmove(pos1, GetCastlesRookMove(move))
        ELSE pos1

LogicalUnmove(pos, move) ==
    LET inverse_move == Move(move.target_file, move.target_rank,
                             move.initial_file, move.initial_rank, NoPiece)
        r1 == LogicalMove(pos, inverse_move)
        pos1 == [board |-> r1.board, info |-> r1.info]
        pos2 == IF IsCastles(pos1.board, pos1.info, move)
                THEN LogicalUnmove(pos1, GetCastlesRookMove(move))
                ELSE pos1
    IN  IF move.capture # NoPiece
        THEN [board |-> [pos2.board EXCEPT ![pos2.info[move.capture].rank]
                                            [pos2.info[move.capture].file]
                                                = move.capture],
              info |-> pos2.info]
        ELSE pos2

\* is_valid's early returns
IsValidPre(pos, move) ==
    LET init_piece == PieceAt(pos.board, move.initial_file, move.initial_rank)
        target_piece == PieceAt(pos.board, move.target_file, move.target_rank)
    IN  /\ init_piece # NoPiece
        /\ ~(target_piece # NoPiece
             /\ pos.info[target_piece].player = pos.info[init_piece].player)

\* is_valid that does not look at the king
IsValidNoCheck(pos, move) == IsValidPre(pos, move)

IsValid(pos, move) ==
    /\ IsValidPre(pos, move)
    /\ LET player == pos.info[PieceAt(pos.board, move.initial_file,
                                      move.initial_rank)].player
           r == LogicalMove(pos, move)
       IN  ~InCheck(r.board, r.info, player)

\* The Move object as is_valid leaves it (capture recorded by _logical_move)
AfterIsValid(pos, move) ==
    IF IsValidPre(pos, move) THEN LogicalMove(pos, move).move ELSE move

IsPromotion(pos, move) ==
    LET piece == PieceAt(pos.board, move.initial_file, move.initial_rank) IN
    /\ piece # NoPiece
    /\ pos.info[piece].kind = "Pawn"
    /\ move.target_rank = (IF pos.info[piece].player = WHITE THEN 8 ELSE 1)

----------------------------------------------------------------------------
(* Piece move generators.  XCandidates is the set of Move objects the        *)
(* generator of kind X passes to is_valid; possible_moves yields those for   *)
(* which is_valid answered True, as is_valid left them.                      *)

Forward(player) == IF player = WHITE THEN 1 ELSE -1

\* Pawn.possible_moves that does not ask whether the pawn beside it was the
\* last piece to move
PawnCandidatesAnyPly(pos, pm, p) ==
    LET b == pos.board
        file == pos.info[p].file
        rank == pos.info[p].rank
        player == pos.info[p].player
        forward == Forward(player)
        push1 == IF IsEmpty(b, file, rank + forward)
                 THEN {Move(file, rank, file, rank + forward, NoPiece)}
                 ELSE {}
        push2 == IF /\ IsEmpty(b, file, rank + forward)
                    /\ ~HasMoved(pos.info[p])
                    /\ IsEmpty(b, file, rank + 2 * forward)
                 THEN {Move(file, rank, file, rank + 2 * forward, NoPiece)}
                 ELSE {}
        normal(dx) ==
            LET normal_capture == PieceAt(b, file + dx, rank + forward) IN
            IF normal_capture # NoPiece
               /\ pos.info[normal_capture].player # player
            THEN {Move(file, rank, file + dx, rank + forward, normal_capture)}
            ELSE {}
        passant(dx) ==
            LET en_passant == PieceAt(b, file + dx, rank) IN
            IF /\ en_passant # NoPiece
               /\ pos.info[en_passant].kind = "Pawn"
               /\ pos.info[en_passant].player # player
               /\ Abs(pos.info[en_passant].rank
                      - pos.info[en_passant].prev_rank) = 2
            THEN {Move(file, rank, file + dx, rank + forward, en_passant)}
            ELSE {}
    IN  push1 \cup push2 \cup normal(-1) \cup passant(-1)
              \cup normal(1) \cup passant(1)

PawnCandidates(pos, pm, p) ==
    LET b == pos.board
        file == pos.info[p].file
        rank == pos.info[p].rank
        player == pos.info[p].player
        forward == Forward(player)
        push1 == IF IsEmpty(b, file, rank + forward)
                 THEN {Move(file, rank, file, rank + forward, NoPiece)}
                 ELSE {}
        push2 == IF /\ IsEmpty(b, file, rank + forward)
                    /\ ~HasMoved(pos.info[p])
                    /\ IsEmpty(b, file, rank + 2 * forward)
                 THEN {Move(file, rank, file, rank + 2 * forward, NoPiece)}
                 ELSE {}
        normal(dx) ==
            LET normal_capture == PieceAt(b, file + dx, rank + forward) IN
            IF normal_capture # NoPiece
               /\ pos.info[normal_capture].player # player
            THEN {Move(file, rank, file + dx, rank + forward, normal_capture)}
            ELSE {}
        passant(dx) ==
            LET en_passant == PieceAt(b, file + dx, rank) IN
            IF /\ en_passant # NoPiece
               /\ pos.info[en_passant].kind = "Pawn"
               /\ en_passant = LastPieceToMove(b, pm)
               /\ pos.info[en_passant].player # player
               /\ Abs(pos.info[en_passant].rank
                      - pos.info[en_passant].prev_rank) = 2
            THEN {Move(file, rank, file + dx, rank + forward, en_passant)}
            ELSE {}
    IN  push1 \cup push2 \cup normal(-1) \cup passant(-1)
              \cup normal(1) \cup passant(1)

KnightCandidates(pos, pm, p) ==
    LET file == pos.info[p].file
        rank == pos.info[p].rank
    IN  {Move(file, rank, file + h[1], rank + h[2], NoPiece) :
            h \in {d \in KnightHops : InRange(file + d[1], rank + d[2])}}

\* Squares a ray walk of Bishop/Rook/Queen offers: up to and including the
\* first occupied one.
RECURSIVE RaySquares(_, _, _, _, _)
RaySquares(b, f, r, dx, dy) ==
    IF ~InRange(f, r) THEN {}
    ELSE IF PieceAt(b, f, r) # NoPiece THEN {<<f, r>>}
    ELSE {<<f, r>>} \cup RaySquares(b, f + dx, r + dy, dx, dy)

RayCandidates(pos, p, dirs) ==
    LET file == pos.info[p].file
        rank == pos.info[p].rank
    IN  UNION {{Move(file, rank, sq[1], sq[2], NoPiece) :
                    sq \in RaySquares(pos.board, file + d[1], rank + d[2],
                                      d[1], d[2])} : d \in dirs}

BishopCandidates(pos, pm, p) == RayCandidates(pos, p, Diags)

RookCandidates(pos, pm, p) == RayCandidates(pos, p, Lines)

QueenCandidates(pos, pm, p) == RayCandidates(pos, p, Diags \cup Lines)

\* The castling condition without the square the king steps through
CastlingConditionNoPass(pos, p, corner) ==
    LET file == pos.info[p].file
        rank == pos.info[p].rank
        player == pos.info[p].player
        rook == PieceAt(pos.board, corner, rank)
        dx == IF corner = 1 THEN -1 ELSE 1
        rook_destination_file == file + dx
    IN  /\ rook # NoPiece
        /\ pos.info[rook].kind = "Rook"
        /\ pos.info[rook].player = player
        /\ ~HasMoved(pos.info[rook])
        /\ ~InCheck(pos.board, pos.info, player)
        /\ IsEmpty(pos.board, rook_destination_file, rank)

\* The condition under which King.possible_moves builds the castling Move
\* towards the given corner file (1 or 8).
CastlingCondition(pos, p, corner) ==
    LET file == pos.info[p].file
        rank == pos.info[p].rank
        player == pos.info[p].player
        rook == PieceAt(pos.board, corner, rank)
        dx == IF corner = 1 THEN -1 ELSE 1
        rook_destination_file == file + dx
    IN  /\ rook # NoPiece
        /\ pos.info[rook].kind = "Rook"
        /\ pos.info[rook].player = player
        /\ ~HasMoved(pos.info[rook])
        /\ ~InCheck(pos.board, pos.info, player)
        /\ ~IsControlled(pos.board, pos.info, rook_destination_file, rank,
                         Other(player))
        /\ IsEmpty(pos.board, rook_destination_file, rank)

KingCandidates(pos, pm, p) ==
    LET file == pos.info[p].file
        rank == pos.info[p].rank
        standard ==
            {Move(file, rank, file + d[1], rank + d[2], NoPiece) :
                d \in {e \in Diags \cup Lines :
                            InRange(file + e[1], rank + e[2])}}
        castling ==
            IF HasMoved(pos.info[p]) THEN {}
            ELSE {Move(file, rank,
                       file + 2 * (IF corner = 1 THEN -1 ELSE 1), rank,
                       NoPiece) :
                    corner \in {c \in {1, 8} : CastlingCondition(pos, p, c)}}
    IN  standard \cup castling

Candidates(pos, pm, p) ==
    CASE pos.info[p].kind = "Pawn" -> PawnCandidates(pos, pm, p)
      [] pos.info[p].kind = "Knight" -> KnightCandidates(pos, pm, p)
      [] pos.info[p].kind = "Bishop" -> BishopCandidates(pos, pm, p)
      [] pos.info[p].kind = "Rook" -> RookCandidates(pos, pm, p)
      [] pos.info[p].kind = "Queen" -> QueenCandidates(pos, pm, p)
      [] pos.info[p].kind = "King" -> KingCandidates(pos, pm, p)

PossibleMoves(pos, pm, p) ==
    {AfterIsValid(pos, m) : m \in {c \in Candidates(pos, pm, p) : IsValid(pos, c)}}

\* next(piece.possible_moves(board), None) is a Move
HasPossibleMove(pos, pm, p) ==
    \E c \in Candidates(pos, pm, p) : IsValid(pos, c)

\* Board.__iter__: the entities standing on the grid
OnBoard(b) == {b[r][f] : r \in 1..8, f \in 1..8} \ {NoPiece}

----------------------------------------------------------------------------
(* End state.  A game state st is [board, info, winner, prev_positions,      *)
(* next_id, raised]; turn and previous_move are the ones make_move has not   *)
(* yet updated while _finalize_move runs.                                    *)

Letter(pc) ==
    LET letter == CASE pc.kind = "Pawn" -> <<"p", "P">>
                    [] pc.kind = "Knight" -> <<"n", "N">>
                    [] pc.kind = "Bishop" -> <<"b", "B">>
                    [] pc.kind = "King" -> <<"k", "K">>
                    [] pc.kind = "Queen" -> <<"q", "Q">>
                    [] pc.kind = "Rook" -> <<"r", "R">>
    IN  IF pc.player = WHITE THEN letter[2] ELSE letter[1]

\* Board.__repr__, one entry per square, rank 8 first; __hash__ hashes it.
Repr(b, inf) ==
    [i \in 1..8 |->
        [f \in 1..8 |->
            IF b[9 - i][f] = NoPiece THEN "." ELSE Letter(inf[b[9 - i][f]])]]

Count(pp, key) == IF key \in DOMAIN pp THEN pp[key] ELSE 0

Incremented(pp, key) ==
    IF key \in DOMAIN pp THEN [pp EXCEPT ![key] = @ + 1] ELSE pp @@ (key :> 1)

\* _handle_drawn_by_repitition drawing on the second count
HandleDrawnByRepititionSecond(st) ==
    LET key == Repr(st.board, st.info)
        pp == Incremented(st.prev_positions, key)
    IN  [st EXCEPT !.prev_positions = pp,
                   !.winner = IF pp[key] >= 2 THEN DRAW ELSE @]

HandleDrawnByRepitition(st) ==
    LET key == Repr(st.board, st.info)
        pp == Incremented(st.prev_positions, key)
    IN  [st EXCEPT !.prev_positions = pp,
                   !.winner = IF pp[key] >= 3 THEN DRAW ELSE @]

\* _handle_checkmate with the two outcomes exchanged
HandleCheckmateSwapped(st, trn, pm) ==
    LET victim == Other(trn)
        pos == [board |-> st.board, info |-> st.info]
        drawn == ~InCheck(st.board, st.info, victim)
    IN  IF \E piece \in OnBoard(st.board) :
                /\ st.info[piece].player = victim
                /\ HasPossibleMove(pos, pm, piece)
        THEN st
        ELSE [st EXCEPT !.winner = IF drawn THEN trn ELSE DRAW]

HandleCheckmate(st, trn, pm) ==
    LET victim == Other(trn)
        pos == [board |-> st.board, info |-> st.info]
        drawn == ~InCheck(st.board, st.info, victim)
    IN  IF \E piece \in OnBoard(st.board) :
                /\ st.info[piece].player = victim
                /\ HasPossibleMove(pos, pm, piece)
        THEN st
        ELSE [st EXCEPT !.winner = IF drawn THEN DRAW ELSE trn]

LenOf(inf, kind) == Cardinality({q \in DOMAIN inf : inf[q].kind = kind})

\* a pair counted as opposed whoever owns the two pieces
OpposedPairAny(inf, pair) == TRUE

\* a pair counted as opposed only when the two pieces also stand on squares
\* of one colour
OpposedPairSameComplex(inf, pair) ==
    \E p1, p2 \in pair :
        /\ p1 # p2 /\ inf[p1].player # inf[p2].player
        /\ (inf[p1].file + inf[p1].rank) % 2 = (inf[p2].file + inf[p2].rank) % 2

\* p1.info.player != p2.info.player for the two entities unpacked
OpposedPair(inf, pair) ==
    \E p1, p2 \in pair : p1 # p2 /\ inf[p1].player # inf[p2].player

HandleInsufficientMaterial(st) ==
    LET inf == st.info
        bishops == {q \in DOMAIN inf : inf[q].kind = "Bishop"}
        knights == {q \in DOMAIN inf : inf[q].kind = "Knight"}
        decide(pair) == IF OpposedPair(inf, pair)
                        THEN [st EXCEPT !.winner = DRAW] ELSE st
    IN  IF LenOf(inf, "Pawn") > 0 \/ LenOf(inf, "Rook") > 0
           \/ LenOf(inf, "Queen") > 0
        THEN st
        ELSE IF LenOf(inf, "Bishop") + LenOf(inf, "Knight") > 2 THEN st
        ELSE IF LenOf(inf, "Bishop") + LenOf(inf, "Knight") = 1
        THEN [st EXCEPT !.winner = DRAW]
        ELSE IF LenOf(inf, "Bishop") = 2 THEN decide(bishops)
        ELSE IF LenOf(inf, "Knight") = 2 THEN decide(knights)
        ELSE IF bishops = {} \/ knights = {}
        THEN [st EXCEPT !.raised = "StopIteration"]  \* next() of an empty iterator
        ELSE decide({CHOOSE q \in bishops : TRUE, CHOOSE q \in knights : TRUE})

\* _handle_end_state that goes on to the checkmate rule whatever the
\* repetition rule found
HandleEndStateNoReturn(st, trn, pm) ==
    LET s2 == HandleCheckmate(HandleDrawnByRepitition(st), trn, pm) IN
    IF s2.winner # None THEN s2
    ELSE HandleInsufficientMaterial(s2)

\* _handle_end_state asking the material rule before the checkmate rule
HandleEndStateMaterialFirst(st, trn, pm) ==
    LET s1 == HandleDrawnByRepitition(st) IN
    IF s1.winner # None THEN s1
    ELSE LET s2 == HandleInsufficientMaterial(s1) IN
         IF s2.winner # None \/ s2.raised # "none" THEN s2
         ELSE HandleCheckmate(s2, trn, pm)

HandleEndState(st, trn, pm) ==
    LET s1 == HandleDrawnByRepitition(st) IN
    IF s1.winner # None THEN s1
    ELSE LET s2 == HandleCheckmate(s1, trn, pm) IN
         IF s2.winner # None THEN s2
         ELSE HandleInsufficientMaterial(s2)

Create(kind, file, rank, player) ==
    [kind |-> kind, player |-> player, file |-> file, rank |-> rank,
     prev_file |-> file, prev_rank |-> rank]

\* Piece.destroy that leaves the entity in place
DestroyNothing(inf, id) == inf

Destroy(inf, id) == [q \in DOMAIN inf \ {id} |-> inf[q]]

\* _handle_promotion that leaves the pawn standing on the far rank
HandlePromotionKeepsPawn(st, move) == st

HandlePromotion(st, move) ==
    LET piece == PieceAt(st.board, move.target_file, move.target_rank)
        player == st.info[piece].player
        promotion_rank == IF player = WHITE THEN 8 ELSE 1
        promoted_piece == st.next_id
    IN  [st EXCEPT
            !.info = Destroy(st.info, piece)
                     @@ (promoted_piece :>
                            Create(move.promotion, move.target_file,
                                   promotion_rank, player)),
            !.board = [@ EXCEPT ![promotion_rank][move.target_file]
                                    = promoted_piece],
            !.next_id = @ + 1]

RECURSIVE FinalizeMove(_, _, _, _)

\* _finalize_move that looks for the end of the game before it promotes
FinalizeMoveEndStateFirst(st, move, trn, pm) ==
    LET s1 == IF move.capture # NoPiece
              THEN [st EXCEPT !.info = Destroy(st.info, move.capture)]
              ELSE st
        s2 == IF IsFinalizeCastles(s1.board, s1.info, move)
              THEN FinalizeMove(s1, GetCastlesRookMove(move), trn, pm)
              ELSE s1
        piece == PieceAt(s2.board, move.target_file, move.target_rank)
        s3 == [s2 EXCEPT !.info[piece].prev_file = move.initial_file,
                         !.info[piece].prev_rank = move.initial_rank]
        s4 == HandleEndState(s3, trn, pm)
    IN  IF s2.raised # "none" THEN s2
        ELSE IF move.promotion # None THEN HandlePromotion(s4, move) ELSE s4

FinalizeMove(st, move, trn, pm) ==
    LET s1 == IF move.capture # NoPiece
              THEN [st EXCEPT !.info = Destroy(st.info, move.capture)]
              ELSE st
        s2 == IF IsFinalizeCastles(s1.board, s1.info, move)
              THEN FinalizeMove(s1, GetCastlesRookMove(move), trn, pm)
              ELSE s1
        piece == PieceAt(s2.board, move.target_file, move.target_rank)
        s3 == [s2 EXCEPT !.info[piece].prev_file = move.initial_file,
                         !.info[piece].prev_rank = move.initial_rank]
        s4 == IF move.promotion # None THEN HandlePromotion(s3, move) ELSE s3
    IN  IF s2.raised # "none" THEN s2 ELSE HandleEndState(s4, trn, pm)

----------------------------------------------------------------------------
(* Construction: Board.__init__ and _init_entities *)

\* Piece.__subclasses__() with each class's initial_positions, in order
InitialPositions ==
    <<<<"Pawn", 1, 2>>, <<"Pawn", 2, 2>>, <<"Pawn", 3, 2>>, <<"Pawn", 4, 2>>,
      <<"Pawn", 5, 2>>, <<"Pawn", 6, 2>>, <<"Pawn", 7, 2>>, <<"Pawn", 8, 2>>,
      <<"Knight", 2, 1>>, <<"Knight", 7, 1>>,
      <<"Bishop", 3, 1>>, <<"Bishop", 6, 1>>,
      <<"Rook", 1, 1>>, <<"Rook", 8, 1>>,
      <<"Queen", 4, 1>>, <<"King", 5, 1>>>>

\* entity 2k-1 is the white piece of entry k, entity 2k the black one
InitEntities ==
    [id \in 1..32 |->
        LET e == InitialPositions[(id + 1) \div 2] IN
        IF id % 2 = 1 THEN Create(e[1], e[2], e[3], WHITE)
        ELSE Create(e[1], e[2], 9 - e[3], BLACK)]

\* the grid that holds each entity of inf on its own square
GridOf(inf) ==
    [r \in 1..8 |->
        [f \in 1..8 |->
            IF \E q \in DOMAIN inf : inf[q].file = f /\ inf[q].rank = r
            THEN CHOOSE q \in DOMAIN inf : inf[q].file = f /\ inf[q].rank = r
            ELSE NoPiece]]

NoCounts == [k \in {} |-> 0]

BoardInit ==
    [info |-> InitEntities, turn |-> WHITE, previous_move |-> NoMove,
     prev_positions |-> NoCounts, horizon |-> WidePlies]

----------------------------------------------------------------------------
(* Positions of games in progress.  Each keeps the entity ids of           *)
(* _init_entities, gives every piece the previous square its last move     *)
(* left it with, and counts in prev_positions the signatures its material  *)
(* has produced so far (signatures of earlier, richer material can never   *)
(* recur and are left out).                                                *)

Unmoved(id) == id :> InitEntities[id]

At(id, file, rank, prev_file, prev_rank) ==
    id :> [InitEntities[id] EXCEPT !.file = file, !.rank = rank,
                                   !.prev_file = prev_file,
                                   !.prev_rank = prev_rank]

Standing(inf, id, file, rank) ==
    [inf EXCEPT ![id].file = file, ![id].rank = rank]

Sig(inf) == Repr(GridOf(inf), inf)

\* Locked pawns e6/e7, f2/f3, g3/g4, h2/h3
LockedPawns ==
    At(9, 5, 6, 5, 5) @@ Unmoved(11) @@ At(13, 7, 3, 7, 2) @@ Unmoved(15)
    @@ Unmoved(10) @@ At(12, 6, 3, 6, 4) @@ At(14, 7, 4, 7, 5)
    @@ At(16, 8, 3, 8, 4)

\* White may still castle short; Black has just played Kd8-e8.
CastleLockedInfo ==
    Unmoved(31) @@ Unmoved(27) @@ At(32, 5, 8, 4, 8) @@ LockedPawns

CastleLocked ==
    [info |-> CastleLockedInfo, turn |-> WHITE,
     previous_move |-> Move(4, 8, 5, 8, NoPiece),
     prev_positions |-> (Sig(CastleLockedInfo) :> 1)
                        @@ (Sig(Standing(CastleLockedInfo, 32, 4, 8)) :> 1),
     horizon |-> LockedPlies]

\* The kings have shuffled Kh1-g1 / Kd8-e8 once round; White has just
\* played Kh1-g1 and the position stands for the second time.
ShuffleInfo ==
    At(31, 7, 1, 8, 1) @@ At(27, 6, 1, 5, 1) @@ At(32, 5, 8, 4, 8)
    @@ LockedPawns

Shuffle ==
    [info |-> ShuffleInfo, turn |-> BLACK,
     previous_move |-> Move(8, 1, 7, 1, NoPiece),
     prev_positions |->
        (Sig(ShuffleInfo) :> 2)
        @@ (Sig(Standing(ShuffleInfo, 31, 8, 1)) :> 2)
        @@ (Sig(Standing(Standing(ShuffleInfo, 31, 8, 1), 32, 4, 8)) :> 2)
        @@ (Sig(Standing(ShuffleInfo, 32, 4, 8)) :> 1),
     horizon |-> LockedPlies]

Once(inf) == Sig(inf) :> 1

\* White's queen has left d1 while rook, knight and bishop still stand on
\* a1, b1 and c1; a black knight on a2 attacks the bishop.  White has just
\* played h2-h3.
CastleBlockedInfo ==
    Unmoved(31) @@ Unmoved(25) @@ Unmoved(17) @@ Unmoved(21)
    @@ At(15, 8, 3, 8, 2) @@ Unmoved(32) @@ At(18, 1, 2, 2, 4)

CastleBlocked ==
    [info |-> CastleBlockedInfo, turn |-> BLACK,
     previous_move |-> Move(8, 2, 8, 3, NoPiece),
     prev_positions |-> Once(CastleBlockedInfo), horizon |-> WidePlies]

\* White may castle either way over empty squares; a black rook roams.
\* White has just played h2-h3.
CastleAttackedInfo ==
    Unmoved(31) @@ Unmoved(25) @@ Unmoved(27) @@ At(15, 8, 3, 8, 2)
    @@ At(32, 2, 8, 3, 8) @@ At(26, 7, 7, 7, 8)

CastleAttacked ==
    [info |-> CastleAttackedInfo, turn |-> BLACK,
     previous_move |-> Move(8, 2, 8, 3, NoPiece),
     prev_positions |-> Once(CastleAttackedInfo), horizon |-> WidePlies]

\* Pawn ending: White has just played e4-e5; d7, f7 and g2 may still
\* advance two squares past the pawns on e5 and h4.
EnPassantInfo ==
    At(31, 1, 1, 2, 1) @@ At(9, 5, 5, 5, 4) @@ Unmoved(13)
    @@ At(32, 1, 8, 2, 8) @@ Unmoved(8) @@ Unmoved(12) @@ At(16, 8, 4, 8, 5)

EnPassant ==
    [info |-> EnPassantInfo, turn |-> BLACK,
     previous_move |-> Move(5, 4, 5, 5, NoPiece),
     prev_positions |-> Once(EnPassantInfo), horizon |-> MidPlies]

\* The pawn on b5 shields the king on a5 from the rook on h5; White has
\* just played b4-b5 and c7 may still advance two squares.
EnPassantPinnedInfo ==
    At(31, 1, 5, 1, 4) @@ At(3, 2, 5, 2, 4)
    @@ At(32, 8, 8, 7, 8) @@ Unmoved(6) @@ At(28, 8, 5, 8, 6)

EnPassantPinned ==
    [info |-> EnPassantPinnedInfo, turn |-> BLACK,
     previous_move |-> Move(2, 4, 2, 5, NoPiece),
     prev_positions |-> Once(EnPassantPinnedInfo), horizon |-> WidePlies]

\* A white pawn on a7 before an unmoved black king and b8 knight; Black has
\* just played h7-h6.  And the same with colours reversed.
PromotionWhiteInfo ==
    At(31, 7, 2, 7, 1) @@ At(1, 1, 7, 1, 6)
    @@ Unmoved(32) @@ Unmoved(18) @@ At(16, 8, 6, 8, 7)

PromotionWhite ==
    [info |-> PromotionWhiteInfo, turn |-> WHITE,
     previous_move |-> Move(8, 7, 8, 6, NoPiece),
     prev_positions |-> Once(PromotionWhiteInfo), horizon |-> WidePlies]

PromotionBlackInfo ==
    At(32, 7, 7, 7, 8) @@ At(2, 1, 2, 1, 3)
    @@ Unmoved(31) @@ Unmoved(17) @@ At(15, 8, 3, 8, 2)

PromotionBlack ==
    [info |-> PromotionBlackInfo, turn |-> BLACK,
     previous_move |-> Move(8, 2, 8, 3, NoPiece),
     prev_positions |-> Once(PromotionBlackInfo), horizon |-> WidePlies]

\* King g6, queen f5 and rook a1 against the king on h8; Black has just
\* played Kg8-h8.
MatingInfo ==
    At(31, 7, 6, 7, 5) @@ Unmoved(25) @@ At(29, 6, 5, 6, 1)
    @@ At(32, 8, 8, 7, 8)

Mating ==
    [info |-> MatingInfo, turn |-> WHITE,
     previous_move |-> Move(7, 8, 8, 8, NoPiece),
     prev_positions |-> Once(MatingInfo), horizon |-> WidePlies]

\* King e4 next to the last black pawn, which has just played d4-d3;
\* with and without the bishop on f1.
LastPawnInfo(with_bishop) ==
    At(31, 5, 4, 5, 3) @@ At(32, 8, 8, 7, 8) @@ At(8, 4, 3, 4, 4)
    @@ (IF with_bishop THEN Unmoved(23) ELSE NoCounts)

LastPawn(with_bishop) ==
    [info |-> LastPawnInfo(with_bishop), turn |-> WHITE,
     previous_move |-> Move(4, 4, 4, 3, NoPiece),
     prev_positions |-> Once(LastPawnInfo(with_bishop)),
     horizon |-> WidePlies]

\* Three minor pieces: white ones on g6 (next to the black king on g7) and
\* e2, a black one on b3 (next to the white king on b2).  wg, we, bb are
\* entity ids; the side not to move has just moved its king.
MinorSquare(id, file, rank) ==
    LET knight == InitEntities[id].kind = "Knight" IN
    CASE file = 7 -> IF knight THEN At(id, 7, 6, 5, 5) ELSE At(id, 7, 6, 5, 4)
      [] file = 5 -> IF knight THEN At(id, 5, 2, 3, 3) ELSE At(id, 5, 2, 6, 1)
      [] file = 2 -> IF knight THEN At(id, 2, 3, 3, 5) ELSE At(id, 2, 3, 3, 4)

MinorsInfo(wg, we, bb) ==
    At(31, 2, 2, 1, 2) @@ At(32, 7, 7, 7, 8)
    @@ MinorSquare(wg, 7, 6) @@ MinorSquare(we, 5, 2) @@ MinorSquare(bb, 2, 3)

Minors(wg, we, bb, to_move) ==
    [info |-> MinorsInfo(wg, we, bb), turn |-> to_move,
     previous_move |-> IF to_move = WHITE THEN Move(7, 8, 7, 7, NoPiece)
                       ELSE Move(1, 2, 2, 2, NoPiece),
     prev_positions |-> Once(MinorsInfo(wg, we, bb)),
     horizon |-> WidePlies]

\* A white knight on g6 and bishop on e3 against a bishop on b3; White has
\* just played Bf2-e3.  After Kxg6 one bishop of each player is left, on
\* squares of different colours.
BishopsInfo ==
    At(31, 2, 2, 1, 2) @@ At(32, 7, 7, 7, 8)
    @@ MinorSquare(17, 7, 6) @@ At(23, 5, 3, 6, 2) @@ MinorSquare(22, 2, 3)

Bishops ==
    [info |-> BishopsInfo, turn |-> BLACK,
     previous_move |-> Move(6, 2, 5, 3, NoPiece),
     prev_positions |-> Once(BishopsInfo), horizon |-> WidePlies]

\* King g6 and rook a1 against the king on h8 after the rook and the black
\* king have shuttled a1-a2 and h8-g8 twice; Black has just played Kg8-h8.
RookEndingInfo ==
    At(31, 7, 6, 6, 6) @@ At(25, 1, 1, 1, 2) @@ At(32, 8, 8, 7, 8)

RookEnding ==
    [info |-> RookEndingInfo, turn |-> WHITE,
     previous_move |-> Move(7, 8, 8, 8, NoPiece),
     prev_positions |->
        (Sig(RookEndingInfo) :> 2)
        @@ (Sig(Standing(RookEndingInfo, 25, 1, 2)) :> 2)
        @@ (Sig(Standing(Standing(RookEndingInfo, 25, 1, 2), 32, 7, 8)) :> 2)
        @@ (Sig(Standing(RookEndingInfo, 32, 7, 8)) :> 2),
     horizon |-> MidPlies]

\* White may castle short onto the open f-file; the black king on f8 stands
\* between its rooks on e8 and g8 behind the pawns on e7 and g7.  Black has
\* just played Rd8-e8.
CastleMateInfo ==
    Unmoved(31) @@ Unmoved(27)
    @@ At(32, 6, 8, 5, 8) @@ At(26, 5, 8, 4, 8) @@ At(28, 7, 8, 8, 8)
    @@ Unmoved(10) @@ Unmoved(14)

CastleMate ==
    [info |-> CastleMateInfo, turn |-> WHITE,
     previous_move |-> Move(4, 8, 5, 8, NoPiece),
     prev_positions |-> Once(CastleMateInfo), horizon |-> WidePlies]

\* King g6 and a pawn on e7 against the king on h8; Black has just played
\* Kg8-h8.
PromotionMateInfo ==
    At(31, 7, 6, 7, 5) @@ At(9, 5, 7, 5, 6) @@ At(32, 8, 8, 7, 8)

PromotionMate ==
    [info |-> PromotionMateInfo, turn |-> WHITE,
     previous_move |-> Move(7, 8, 8, 8, NoPiece),
     prev_positions |-> Once(PromotionMateInfo), horizon |-> WidePlies]

\* King c7 and pawn b6 leave the king on a8 no square; the pawn on h4 is
\* blocked by the pawn on h3 and g2 may still advance two squares past it.
\* Black has just played h5-h4.
EnPassantEscapeInfo ==
    At(31, 3, 7, 3, 6) @@ At(3, 2, 6, 2, 5) @@ Unmoved(13)
    @@ At(15, 8, 3, 8, 2) @@ At(32, 1, 8, 2, 8) @@ At(16, 8, 4, 8, 5)

EnPassantEscape ==
    [info |-> EnPassantEscapeInfo, turn |-> WHITE,
     previous_move |-> Move(8, 5, 8, 4, NoPiece),
     prev_positions |-> Once(EnPassantEscapeInfo), horizon |-> WidePlies]

\* King g6 and bishop f6 against king h8, knight g8 and a rook that has just
\* come from a7 to g7, giving check: Bxg7 mates and leaves a bishop against
\* a knight.
MateMinorsInfo ==
    At(31, 7, 6, 6, 5) @@ At(21, 6, 6, 5, 7)
    @@ At(32, 8, 8, 8, 7) @@ Unmoved(20) @@ At(26, 7, 7, 1, 7)

MateMinors ==
    [info |-> MateMinorsInfo, turn |-> WHITE,
     previous_move |-> Move(1, 7, 7, 7, NoPiece),
     prev_positions |-> Once(MateMinorsInfo), horizon |-> WidePlies]

\* the piece id of inf has come from (prev_file, prev_rank)
Came(inf, id, prev_file, prev_rank) ==
    [inf EXCEPT ![id].prev_file = prev_file, ![id].prev_rank = prev_rank]

\* the signatures a round of knight moves out and back leaves behind: the
\* white knight wn on (wf, 3), then the black knight bn on (bf, 6) as well,
\* then the black knight alone
Round(wn, wf, bn, bf) ==
    Once(Standing(InitEntities, wn, wf, 3))
    @@ Once(Standing(Standing(InitEntities, wn, wf, 3), bn, bf, 6))
    @@ Once(Standing(InitEntities, bn, bf, 6))

\* The standard layout after 1. Nf3 Nf6 2. Ng1 Ng8 3. Nc3 Nc6 4. Nb1: with
\* Nb8 Black re-creates the layout for the second time.
InitialTwiceInfo ==
    Standing(Came(Came(Came(InitEntities, 19, 6, 3), 20, 6, 6), 17, 3, 3),
             18, 3, 6)

InitialTwice ==
    [info |-> InitialTwiceInfo, turn |-> BLACK,
     previous_move |-> Move(3, 3, 2, 1, NoPiece),
     prev_positions |-> Round(19, 6, 20, 6) @@ Once(InitEntities)
                        @@ Round(17, 3, 18, 3),
     horizon |-> WidePlies]

\* The same after 4... Nb8 5. Nh3 Nh6 6. Ng1: with Ng8 Black re-creates the
\* layout for the third time.
InitialThriceInfo ==
    Standing(Came(Came(Came(InitEntities, 17, 3, 3), 18, 3, 6), 19, 8, 3),
             20, 8, 6)

InitialThrice ==
    [info |-> InitialThriceInfo, turn |-> BLACK,
     previous_move |-> Move(8, 3, 7, 1, NoPiece),
     prev_positions |-> Round(19, 6, 20, 6) @@ (Sig(InitEntities) :> 2)
                        @@ Round(17, 3, 18, 3) @@ Round(19, 8, 20, 8),
     horizon |-> WidePlies]

MinorStarts ==
    {Minors(w[1], w[2], bb, to_move) :
        w \in {<<17, 19>>, <<21, 23>>, <<21, 17>>, <<17, 23>>},
        bb \in {18, 22}, to_move \in {WHITE, BLACK}}

Starts ==
    {BoardInit, CastleLocked, Shuffle, CastleBlocked, CastleAttacked,
     EnPassant, EnPassantPinned, PromotionWhite, PromotionBlack, Mating,
     LastPawn(TRUE), LastPawn(FALSE), Bishops,
     RookEnding, CastleMate, PromotionMate, EnPassantEscape, MateMinors,
     InitialTwice, InitialThrice}
    \cup MinorStarts

NoCapture == [kind |-> None, player |-> None, file |-> 0, rank |-> 0]

NoLast ==
    [piece |-> NoPiece, player |-> None, move |-> NoMove, castles |-> FALSE,
     captured |-> NoCapture]

\* the board of start position s
Begin(s) ==
        /\ info = s.info
        /\ board = GridOf(s.info)
        /\ turn = s.turn
        /\ winner = None
        /\ previous_move = s.previous_move
        /\ prev_positions = s.prev_positions
        /\ occurrences = s.prev_positions
        /\ white_king = 31
        /\ black_king = 32
        /\ next_id = 33
        /\ raised = "none"
        /\ last = IF s.previous_move = NoMove THEN NoLast
                  ELSE [piece |-> GridOf(s.info)[s.previous_move.target_rank]
                                                [s.previous_move.target_file],
                        player |-> Other(s.turn), move |-> s.previous_move,
                        castles |-> FALSE, captured |-> NoCapture]
        /\ moved = {q \in DOMAIN s.info : HasMoved(s.info[q])}
        /\ ply = 0
        /\ horizon = s.horizon

NoEvent ==
    [kind |-> "none", file |-> 0, rank |-> 0, on |-> "nothing", choice |-> None]

\* GameScene.__init__ and Opponent.__init__ for the human playing side and
\* opponent class kind
SceneBegin(side, kind) ==
    /\ scene_player = side
    /\ selected = NoPiece
    /\ promotion_pending = NoMove
    /\ promotion_props = {}
    /\ opponent = kind
    /\ thinking = FALSE
    /\ opp_move = NoMove
    /\ opp_selected = NoPiece
    /\ worker = "idle"
    /\ event = NoEvent
    /\ tasks = 0
    /\ fade_opacity = 0
    /\ game_over = FALSE

\* self._fade_opacity_step and the opacity at which fade_out ends the game,
\* in hundredths
FadeOpacityStep == 1
FadeFull == 100

\* no move is being exchanged with the engine
WireIdle ==
    /\ wire_move = NoMove
    /\ wire_str = <<>>
    /\ wire_out = NoMove
    /\ wire_pc = "idle"

Init ==
    \E s \in Starts : Begin(s) /\ SceneBegin(WHITE, "debug") /\ WireIdle

----------------------------------------------------------------------------
(* Board.make_move *)

Position == [board |-> board, info |-> info]

\* the outcome of make_move(move) in the current state
MakeMoveResult(move) ==
    LET r == LogicalMove(Position, move)
        st == [board |-> r.board, info |-> r.info, winner |-> winner,
               prev_positions |-> prev_positions, next_id |-> next_id,
               raised |-> raised]
    IN  FinalizeMove(st, r.move, turn, previous_move) @@ [move |-> r.move]

\* Board.make_move(move) where p is the piece on the move's initial square:
\* what it does to the board, and the history of it.
ApplyMove(p, move) ==
    \E res \in {MakeMoveResult(move)} :
       LET castles == IsCastles(board, info, move)
           rook_move == GetCastlesRookMove(move)
       IN
        /\ board' = res.board
        /\ info' = res.info
        /\ winner' = res.winner
        /\ prev_positions' = res.prev_positions
        /\ next_id' = res.next_id
        /\ raised' = res.raised
        /\ turn' = IF res.raised = "none" THEN Other(turn) ELSE turn
        /\ previous_move' = IF res.raised = "none" THEN res.move
                            ELSE previous_move
        /\ occurrences' = Incremented(occurrences, Repr(res.board, res.info))
        /\ last' = [piece |-> p, player |-> turn, move |-> res.move,
                    castles |-> castles,
                    captured |->
                        IF res.move.capture = NoPiece THEN NoCapture
                        ELSE [kind |-> info[res.move.capture].kind,
                              player |-> info[res.move.capture].player,
                              file |-> info[res.move.capture].file,
                              rank |-> info[res.move.capture].rank]]
        /\ moved' = moved \cup {p}
                    \cup (IF castles
                          THEN {PieceAt(board, rook_move.initial_file,
                                        rook_move.initial_rank)} \ {NoPiece}
                          ELSE {})
        /\ ply' = ply + 1
        /\ UNCHANGED <<white_king, black_king, horizon>>

\* A move of GameScene.request_move / Opponent.handle_turn: the Move c that
\* possible_moves of piece p built and is_valid accepted, as is_valid left
\* it, with a promotion kind when it is a promotion.
MakeMove(p, c, kind) ==
    /\ info[p].player = turn
    /\ kind \in (IF IsPromotion(Position, c) THEN PromotionKinds ELSE {None})
    /\ c \in Candidates(Position, previous_move, p)
    /\ IsValid(Position, c)
    /\ ApplyMove(p, [AfterIsValid(Position, c) EXCEPT !.promotion = kind])
    /\ UNCHANGED <<sceneVars, wireVars>>

\* The scenes make no move once the game is over (GameScene.cast_ray,
\* GameScene.update) and nothing runs after an exception escaped.
Next ==
    /\ raised = "none" /\ winner = None /\ ply < horizon
    /\ \E p \in {q \in OnBoard(board) : info[q].player = turn} :
         \E c \in Candidates(Position, previous_move, p) :
            \E kind \in PromotionKinds \cup {None} : MakeMove(p, c, kind)

Spec == Init /\ [][Next]_vars

\* Board.make_move itself looks at neither winner nor the turn: a caller of
\* the model that goes on applying generated moves after the game was
\* decided.
BoardNext ==
    /\ raised = "none" /\ ply < horizon
    /\ \E p \in {q \in OnBoard(board) : info[q].player = turn} :
         \E c \in Candidates(Position, previous_move, p) :
            \E kind \in PromotionKinds \cup {None} : MakeMove(p, c, kind)

SpecBoard == Init /\ [][BoardNext]_vars

\* Boards for the questions is_controlled and in_check answer: positions
\* with every kind of piece, pinned and blocked ones included, and the
\* moves made from them.
ControlStarts ==
    {Mating, CastleBlocked, EnPassantPinned, EnPassantEscape, Bishops,
     PromotionWhite, PromotionBlack}

ControlInit ==
    \E s \in ControlStarts : Begin(s) /\ SceneBegin(WHITE, "debug") /\ WireIdle

SpecControl == ControlInit /\ [][Next]_vars

----------------------------------------------------------------------------
(* GameScene and the opponents *)

\* what gamelib.ecs.collisions.nearest_entity_hit may return for a click: no
\* entity, a piece on the board, or one of the promotion props
Nothing == [on |-> "nothing", id |-> NoPiece, kind |-> None]

Hits ==
    {Nothing}
    \cup {[on |-> "piece", id |-> q, kind |-> None] : q \in OnBoard(board)}
    \cup {[on |-> "prop", id |-> NoPiece, kind |-> k] : k \in promotion_props}

\* ray_to_file_and_rank: a square of the board or a place beside it
ClickSquares == ((1..8) \X (1..8)) \cup {<<0, 0>>, <<9, 4>>}

\* entity is not None and entity.info.player == side
OwnedBy(hit, side) ==
    \/ hit.on = "prop"
    \/ hit.on = "piece" /\ info[hit.id].player = side

\* the same loop comparing the target file only
MatchingMovesFileOnly(p, file, rank) ==
    {m \in PossibleMoves(Position, previous_move, p) :
        /\ m.initial_file = info[p].file
        /\ m.initial_rank = info[p].rank
        /\ m.target_file = file}

\* the loop of request_move / get_move over possible_moves of piece p
MatchingMoves(p, file, rank) ==
    {m \in PossibleMoves(Position, previous_move, p) :
        /\ m.initial_file = info[p].file
        /\ m.initial_rank = info[p].rank
        /\ m.target_file = file
        /\ m.target_rank = rank}

\* cast_ray without its test of board.winner
CastRayPreNoWinner(pending) ==
    /\ turn = scene_player
    /\ (promotion_pending # NoMove) = pending

\* the three early returns of GameScene.cast_ray
CastRayPre(pending) ==
    /\ winner = None
    /\ turn = scene_player
    /\ (promotion_pending # NoMove) = pending

\* cast_ray with nothing selected: select_piece
SelectPiece(hit) ==
    /\ CastRayPre(FALSE)
    /\ selected = NoPiece
    /\ hit.on # "prop"
    /\ selected' = IF OwnedBy(hit, scene_player) THEN hit.id ELSE NoPiece
    /\ event' = [NoEvent EXCEPT !.kind = "select", !.on = hit.on]
    /\ UNCHANGED <<boardVars, wireVars, scene_player, promotion_pending,
                   promotion_props, opponent, thinking, opp_move,
                   opp_selected, worker, tasks, fade_opacity, game_over>>

\* cast_ray with a piece selected: request_move(file, rank), then
\* self.selected = None
RequestMove(file, rank) ==
    /\ CastRayPre(FALSE)
    /\ selected # NoPiece
    /\ event' = [NoEvent EXCEPT !.kind = "request", !.file = file,
                                !.rank = rank]
    /\ UNCHANGED <<wireVars, scene_player, opponent, thinking, opp_move,
                   opp_selected, worker, tasks, fade_opacity, game_over>>
    /\ IF MatchingMoves(selected, file, rank) = {}
       THEN /\ selected' = NoPiece
            /\ UNCHANGED <<boardVars, promotion_pending, promotion_props>>
       ELSE \E move \in MatchingMoves(selected, file, rank) :
              IF IsPromotion(Position, move)
              THEN /\ promotion_pending' = move
                   /\ promotion_props' = PromotionKinds
                   /\ selected' = NoPiece
                   /\ UNCHANGED boardVars
              ELSE /\ ApplyMove(selected, move)
                   /\ selected' = IF raised' = "none" THEN NoPiece
                                  ELSE selected
                   /\ UNCHANGED <<promotion_pending, promotion_props>>

\* the promotion-props test of _handle_promotion_pending left out
IsPropAny(hit) == TRUE

\* self.selected in self._promotion_props, after select_piece
IsProp(hit) == hit.on = "prop" /\ hit.kind \in promotion_props

\* cast_ray while a promotion is pending: _handle_promotion_pending
HandlePromotionPending(hit) ==
    /\ CastRayPre(TRUE)
    /\ event' = [NoEvent EXCEPT !.kind = "promotion", !.on = hit.on,
                                !.choice = hit.kind]
    /\ UNCHANGED <<wireVars, scene_player, opponent, thinking, opp_move,
                   opp_selected, worker, tasks, fade_opacity, game_over>>
    /\ IF ~(OwnedBy(hit, scene_player) /\ IsProp(hit))
       THEN /\ selected' = NoPiece
            /\ UNCHANGED <<boardVars, promotion_pending, promotion_props>>
       ELSE /\ promotion_props' = {}
            /\ ApplyMove(PieceAt(board, promotion_pending.initial_file,
                                 promotion_pending.initial_rank),
                         [promotion_pending EXCEPT
                            !.promotion = IF hit.on = "prop" THEN hit.kind
                                          ELSE info[hit.id].kind])
            /\ promotion_pending' =
                    IF raised' = "none" THEN NoMove
                    ELSE [promotion_pending EXCEPT
                            !.promotion = IF hit.on = "prop" THEN hit.kind
                                          ELSE info[hit.id].kind]
            /\ selected' = IF raised' = "none" THEN NoPiece
                           ELSE IF OwnedBy(hit, scene_player) THEN hit.id
                           ELSE NoPiece

\* Opponent.handle_turn: schedules think on a worker thread, or applies the
\* move the worker has left in self.move; the two assignments after
\* make_move are not reached when make_move raises
HandleTurn ==
    /\ turn = Other(scene_player)
    /\ UNCHANGED <<wireVars, scene_player, selected, promotion_pending,
                   promotion_props, opponent, opp_selected, fade_opacity,
                   game_over>>
    /\ IF ~thinking
       THEN /\ opp_move' = NoMove
            /\ thinking' = TRUE
            /\ worker' = "running"
            /\ tasks' = tasks + 1
            /\ event' = [NoEvent EXCEPT !.kind = "think"]
            /\ UNCHANGED boardVars
       ELSE /\ opp_move # NoMove
            /\ ApplyMove(PieceAt(board, opp_move.initial_file,
                                 opp_move.initial_rank), opp_move)
            /\ opp_move' = IF raised' = "none" THEN NoMove ELSE opp_move
            /\ thinking' = (raised' # "none")
            /\ tasks' = IF turn' # turn THEN 0 ELSE tasks
            /\ event' = [NoEvent EXCEPT !.kind = "opponent"]
            /\ UNCHANGED worker

\* GameScene.fade_out.  The opacity is kept in hundredths: adding 0.01 to 0
\* in double precision first reaches a value >= 1.0 with the 100th addition.
FadeOut ==
    /\ fade_opacity' = fade_opacity + FadeOpacityStep
    /\ game_over' = (game_over \/ fade_opacity' >= FadeFull)
    /\ event' = [NoEvent EXCEPT !.kind = "fade"]
    /\ UNCHANGED <<boardVars, wireVars, scene_player, selected,
                   promotion_pending, promotion_props, opponent, thinking,
                   opp_move, opp_selected, worker, tasks>>

\* GameScene.update, which the main loop calls until game_over
Update ==
    /\ ~game_over
    /\ IF winner # None THEN FadeOut
       ELSE ply < horizon /\ HandleTurn

\* DebugOpponent.cast_ray, enabled while calculate_move waits; a move that
\* get_move returns ends the wait and becomes Opponent.move
DebugCastRay(hit, file, rank) ==
    /\ opponent = "debug"
    /\ worker = "running"
    /\ UNCHANGED <<boardVars, wireVars, scene_player, selected,
                   promotion_pending, promotion_props, opponent, thinking,
                   tasks, fade_opacity, game_over>>
    /\ IF opp_selected = NoPiece
       THEN /\ opp_selected' =
                    IF hit.on = "piece" /\ OwnedBy(hit, Other(scene_player))
                    THEN hit.id ELSE NoPiece
            /\ event' = [NoEvent EXCEPT !.kind = "debug_select",
                                        !.on = hit.on]
            /\ UNCHANGED <<opp_move, worker>>
       ELSE /\ opp_selected' = NoPiece
            /\ event' = [NoEvent EXCEPT !.kind = "get_move", !.file = file,
                                        !.rank = rank]
            /\ IF MatchingMoves(opp_selected, file, rank) = {}
               THEN UNCHANGED <<opp_move, worker>>
               ELSE \E move \in MatchingMoves(opp_selected, file, rank) :
                      /\ opp_move' =
                            IF IsPromotion(Position, move)
                            THEN [move EXCEPT !.promotion = "Queen"]
                            ELSE move
                      /\ worker' = "idle"

\* StockfishOpponent.calculate_move returns the engine's move: squares and
\* promotion parsed from the bestmove line, capture left None
StockfishCalculateMove(p, c, kind) ==
    /\ opponent = "stockfish"
    /\ worker = "running"
    /\ info[p].player = Other(scene_player)
    /\ c \in PossibleMoves(Position, previous_move, p)
    /\ kind \in (IF IsPromotion(Position, c) THEN PromotionKinds ELSE {None})
    /\ opp_move' = [Move(c.initial_file, c.initial_rank, c.target_file,
                         c.target_rank, NoPiece) EXCEPT !.promotion = kind]
    /\ worker' = "idle"
    /\ event' = [NoEvent EXCEPT !.kind = "bestmove"]
    /\ UNCHANGED <<boardVars, wireVars, scene_player, selected,
                   promotion_pending, promotion_props, opponent, thinking,
                   opp_selected, tasks, fade_opacity, game_over>>

\* Stockfish._ready_check raises TimeoutError inside the worker: think ends
\* without assigning self.move
StockfishTimeout ==
    /\ opponent = "stockfish"
    /\ worker = "running"
    /\ worker' = "failed"
    /\ event' = [NoEvent EXCEPT !.kind = "timeout"]
    /\ UNCHANGED <<boardVars, wireVars, scene_player, selected,
                   promotion_pending, promotion_props, opponent, thinking,
                   opp_move, opp_selected, tasks, fade_opacity, game_over>>

\* White has just played e2-e4 past the black pawn on d4.
EnPassantReadyInfo ==
    At(31, 1, 1, 2, 1) @@ At(9, 5, 4, 5, 2)
    @@ At(32, 1, 8, 2, 8) @@ At(8, 4, 4, 4, 5)

EnPassantReady ==
    [info |-> EnPassantReadyInfo, turn |-> BLACK,
     previous_move |-> Move(5, 2, 5, 4, NoPiece),
     prev_positions |-> Once(EnPassantReadyInfo), horizon |-> WidePlies]

\* Black has just played g3-g2, check; the king on h1 may take the pawn,
\* which leaves king against king and knight, or step aside.
DrawnCaptureInfo ==
    At(31, 8, 1, 8, 2) @@ At(14, 7, 2, 7, 3)
    @@ At(32, 1, 8, 2, 8) @@ Unmoved(18)

DrawnCapture ==
    [info |-> DrawnCaptureInfo, turn |-> WHITE,
     previous_move |-> Move(7, 3, 7, 2, NoPiece),
     prev_positions |-> Once(DrawnCaptureInfo), horizon |-> DrawnPlies]

SceneStarts ==
    {PromotionBlack, PromotionMate, LastPawn(FALSE), EnPassantReady,
     DrawnCapture}

SceneInit ==
    \E s \in SceneStarts, side \in {WHITE, BLACK},
       kind \in {"debug", "stockfish"} :
        Begin(s) /\ SceneBegin(side, kind) /\ WireIdle

SceneNext ==
    /\ raised = "none"
    /\ \/ Update
       \/ ply < horizon /\ \E hit \in Hits : SelectPiece(hit)
       \/ ply < horizon /\ \E sq \in ClickSquares : RequestMove(sq[1], sq[2])
       \/ ply < horizon /\ \E hit \in Hits : HandlePromotionPending(hit)
       \/ \E hit \in (IF opp_selected = NoPiece THEN Hits ELSE {Nothing}),
             sq \in (IF opp_selected = NoPiece THEN {<<0, 0>>}
                     ELSE ClickSquares) :
             DebugCastRay(hit, sq[1], sq[2])
       \/ /\ worker = "running"
          /\ \E p \in OnBoard(board) :
               \E c \in PossibleMoves(Position, previous_move, p) :
                 \E kind \in PromotionKinds \cup {None} :
                    StockfishCalculateMove(p, c, kind)
       \/ StockfishTimeout

SpecScene == SceneInit /\ [][SceneNext]_vars

----------------------------------------------------------------------------
(* Stockfish: the move notation on the wire *)

\* FILES = "0abcdefgh", indexed from 0
FILES ==
    [i \in 0..8 |-> <<"0", "a", "b", "c", "d", "e", "f", "g", "h">>[i + 1]]

\* PIECES, a dict from the promotion letter to the piece class
PIECES == [n |-> "Knight", q |-> "Queen", r |-> "Rook", b |-> "Bishop"]

\* str(i) for a single digit and int(c) for its character
Digit == [i \in 0..9 |-> <<"0", "1", "2", "3", "4", "5", "6", "7", "8", "9">>[i + 1]]

IntOf(c) == CHOOSE i \in 0..9 : Digit[i] = c

\* str.upper on a promotion letter
Upper == [n |-> "N", q |-> "Q", r |-> "R", b |-> "B"]

\* the letter Stockfish.make_move appends for move.promotion
PromotionLetter(move) ==
    IF move.promotion = None THEN <<>>
    ELSE LET k == CHOOSE k \in DOMAIN PIECES : PIECES[k] = move.promotion
         IN  IF move.target_rank = 8 THEN <<Upper[k]>> ELSE <<k>>

\* strmove of Stockfish.make_move, as a sequence of characters
StrMove(move) ==
    <<FILES[move.initial_file], Digit[move.initial_rank],
      FILES[move.target_file], Digit[move.target_rank]>>
    \o PromotionLetter(move)

\* files.index(c)
FileIndex(c) == CHOOSE i \in 0..8 : FILES[i] = c

\* f1, r1, f2, r2, *p = strmove and the Move built from them; PIECES[p[0]]
\* raises KeyError for a letter that is no key
ParseMove(strmove) ==
    LET p == SubSeq(strmove, 5, Len(strmove)) IN
    IF p # <<>> /\ p[1] \notin DOMAIN PIECES
    THEN [raised |-> "KeyError", move |-> NoMove]
    ELSE [raised |-> "none",
          move |-> [Move(FileIndex(strmove[1]), IntOf(strmove[2]),
                         FileIndex(strmove[3]), IntOf(strmove[4]), NoPiece)
                       EXCEPT !.promotion =
                           IF p = <<>> THEN None ELSE PIECES[p[1]]]]

\* the moves the notation is for
WireMoves ==
    {[Move(fi, ri, ft, rt, NoPiece) EXCEPT !.promotion = k] :
        fi \in 1..8, ri \in 1..8, ft \in 1..8, rt \in 1..8,
        k \in PromotionKinds \cup {None}}

WireInit ==
    /\ Begin(BoardInit)
    /\ SceneBegin(WHITE, "stockfish")
    /\ wire_move \in WireMoves
    /\ wire_str = <<>>
    /\ wire_out = NoMove
    /\ wire_pc = "move"

\* Stockfish.make_move(move) builds the string it sends
SfMakeMove ==
    /\ wire_pc = "move"
    /\ wire_str' = StrMove(wire_move)
    /\ wire_pc' = "sent"
    /\ UNCHANGED <<boardVars, sceneVars, wire_move, wire_out>>

\* the parsing of Stockfish.get_best_move applied to that string
SfGetBestMove ==
    /\ wire_pc = "sent"
    /\ \E res \in {ParseMove(wire_str)} :
          /\ wire_out' = res.move
          /\ wire_pc' = IF res.raised = "none" THEN "parsed" ELSE res.raised
    /\ UNCHANGED <<boardVars, sceneVars, wire_move, wire_str>>

WireNext == SfMakeMove \/ SfGetBestMove

SpecWire == WireInit /\ [][WireNext]_vars

----------------------------------------------------------------------------
(* Properties *)

KingOf(player) == IF player = BLACK THEN black_king ELSE white_king

Pieces(player) == {q \in OnBoard(board) : info[q].player = player}

LegalMoves(p) == PossibleMoves(Position, previous_move, p)

HasLegalMove(player) ==
    \E p \in Pieces(player) : HasPossibleMove(Position, previous_move, p)

Signature == Repr(board, info)

AfterMakeMove == ply > 0

\* a capture whose victim does not stand on the destination square
IsEnPassantMove(m) ==
    /\ m.capture # NoPiece
    /\ \/ info[m.capture].file # m.target_file
       \/ info[m.capture].rank # m.target_rank

IsCastlingMove(p, m) ==
    /\ info[p].kind = "King"
    /\ m.initial_file = 5
    /\ Abs(m.target_file - m.initial_file) = 2

LastWasEnPassant ==
    /\ AfterMakeMove
    /\ last.captured.kind = "Pawn"
    /\ last.captured.rank # last.move.target_rank

\* C1: after every make_move of a generated move, castling, en passant and
\* promotion included, the king of the player who moved is not in check.
C1_MoverNotInCheck ==
    last.piece # NoPiece => ~InCheck(board, info, last.player)

\* an en-passant capture has just been applied
C1_Witness == LastWasEnPassant /\ ~InCheck(board, info, last.player)

\* C2: for every Move a generator hands to is_valid and is_valid speculates
\* on, _logical_move followed by _logical_unmove gives back the grid and
\* every PieceInfo (current and previous squares) exactly as they were.
C2_RoundTrip ==
    \A p \in OnBoard(board) :
        \A c \in Candidates(Position, previous_move, p) :
            IsValidPre(Position, c) =>
                \A r \in {LogicalMove(Position, c)} :
                    LogicalUnmove([board |-> r.board, info |-> r.info],
                                  r.move) = Position

\* is_valid has speculated on an en-passant capture and undone it
C2_Witness ==
    /\ AfterMakeMove
    /\ \E p \in OnBoard(board) :
        \E c \in Candidates(Position, previous_move, p) :
            /\ IsEnPassantMove(c)
            /\ IsValidPre(Position, c)
            /\ \A r \in {LogicalMove(Position, c)} :
                /\ r.board # board
                /\ LogicalUnmove([board |-> r.board, info |-> r.info],
                                 r.move) = Position

DrawnByRepitition ==
    winner = DRAW /\ Count(prev_positions, Signature) >= 3

\* C3: the game is drawn by repetition by the make_move that produces a
\* signature for the third time, and by no make_move that produces it for
\* the first or the second time.
C3_ThirdOccurrence ==
    AfterMakeMove =>
        (DrawnByRepitition <=> Count(occurrences, Signature) = 3)

\* the squares strictly between the king on file 5 and the corner
Between(corner) == IF corner = 1 THEN {2, 3, 4} ELSE {6, 7}

CornerOf(m) == IF m.target_file = 3 THEN 1 ELSE 8

\* C4: a castling move is yielded only when every square between king and
\* rook is empty, and applying a castling move captures nothing.
C4_CastlingOverEmptySquares ==
    /\ \A player \in {WHITE, BLACK} :
        \A m \in LegalMoves(KingOf(player)) :
            IsCastlingMove(KingOf(player), m) =>
                \A f \in Between(CornerOf(m)) :
                    IsEmpty(board, f, m.initial_rank)
    /\ (AfterMakeMove /\ last.castles) => last.captured = NoCapture

\* king and corner rook never moved by make_move, nothing between them
CastlingPre(player, corner) ==
    LET king == KingOf(player)
        rook == PieceAt(board, corner, info[king].rank)
    IN  /\ king \notin moved
        /\ rook # NoPiece
        /\ info[rook].kind = "Rook"
        /\ info[rook].player = player
        /\ rook \notin moved
        /\ \A f \in Between(corner) : IsEmpty(board, f, info[king].rank)

CastlingMove(player, corner) ==
    LET king == KingOf(player) IN
    Move(info[king].file, info[king].rank,
         info[king].file + (IF corner = 1 THEN -2 ELSE 2), info[king].rank,
         NoPiece)

Attacked(file, rank, player) ==
    IsControlled(board, info, file, rank, Other(player))

\* C5: with king and corner rook unmoved and the squares between them empty,
\* the castling move is yielded iff the king is not in check and neither the
\* square it steps through nor the square it lands on is attacked.
C5_CastlingOffered ==
    \A player \in {WHITE, BLACK} : \A corner \in {1, 8} :
        CastlingPre(player, corner) =>
            LET king == KingOf(player)
                dx == IF corner = 1 THEN -1 ELSE 1
            IN  (CastlingMove(player, corner) \in LegalMoves(king))
                <=> /\ ~InCheck(board, info, player)
                    /\ ~Attacked(info[king].file + dx, info[king].rank, player)
                    /\ ~Attacked(info[king].file + 2 * dx, info[king].rank,
                                 player)

\* castling is withheld only because the king would step through an
\* attacked square
C5_Witness ==
    /\ AfterMakeMove
    /\ CastlingPre(WHITE, 8)
    /\ ~InCheck(board, info, WHITE)
    /\ Attacked(6, 1, WHITE)
    /\ ~Attacked(7, 1, WHITE)
    /\ CastlingMove(WHITE, 8) \notin LegalMoves(white_king)

\* the rook _init_entities put on the corner of that player's back rank
OriginalRook(player, corner) ==
    CASE player = WHITE /\ corner = 1 -> 25
      [] player = WHITE /\ corner = 8 -> 27
      [] player = BLACK /\ corner = 1 -> 26
      [] player = BLACK /\ corner = 8 -> 28

\* C6: a piece make_move has moved reports has_moved ever after, wherever
\* it stands; castling is yielded only for a king and a corner rook that
\* make_move never moved, the rook being the one that started on that corner.
C6_HasMovedSticks ==
    /\ \A p \in moved \cap DOMAIN info : HasMoved(info[p])
    /\ \A player \in {WHITE, BLACK} :
        \A m \in LegalMoves(KingOf(player)) :
            IsCastlingMove(KingOf(player), m) =>
                /\ KingOf(player) \notin moved
                /\ PieceAt(board, CornerOf(m), m.initial_rank)
                        = OriginalRook(player, CornerOf(m))
                /\ OriginalRook(player, CornerOf(m)) \notin moved

\* the white king has moved and is back on e1 beside its unmoved h1 rook,
\* over empty and unattacked squares, and castling is not yielded
C6_Witness ==
    /\ 31 \in moved
    /\ info[31].file = 5 /\ info[31].rank = 1
    /\ PieceAt(board, 8, 1) = 27 /\ 27 \notin moved
    /\ IsEmpty(board, 6, 1) /\ IsEmpty(board, 7, 1)
    /\ ~InCheck(board, info, WHITE)
    /\ ~Attacked(6, 1, WHITE) /\ ~Attacked(7, 1, WHITE)
    /\ \A m \in LegalMoves(31) : ~IsCastlingMove(31, m)

\* C7: an en-passant capture is yielded only right after the make_move in
\* which the captured pawn advanced two ranks, only to an enemy pawn beside
\* it on the same rank, and only onto the empty square behind it.
C7_EnPassantWindow ==
    \A p \in OnBoard(board) :
        \A m \in LegalMoves(p) :
            IsEnPassantMove(m) =>
                /\ info[p].kind = "Pawn"
                /\ info[m.capture].kind = "Pawn"
                /\ info[m.capture].player # info[p].player
                /\ last.piece = m.capture
                /\ last.move.target_file = last.move.initial_file
                /\ Abs(last.move.target_rank - last.move.initial_rank) = 2
                /\ last.move.target_file = info[m.capture].file
                /\ last.move.target_rank = info[m.capture].rank
                /\ info[m.capture].rank = info[p].rank
                /\ Abs(info[m.capture].file - info[p].file) = 1
                /\ m.target_file = info[m.capture].file
                /\ m.target_rank = info[p].rank + Forward(info[p].player)
                /\ IsEmpty(board, m.target_file, m.target_rank)

\* an en-passant capture is on offer
C7_Witness ==
    /\ AfterMakeMove
    /\ \E p \in Pieces(turn) : \E m \in LegalMoves(p) : IsEnPassantMove(m)

\* C8: after a make_move that repetition did not decide, a player to move
\* without any legal move has lost if in check, and else the game is drawn.
C8_NoLegalMove ==
    (/\ AfterMakeMove
     /\ raised = "none"
     /\ Count(prev_positions, Signature) < 3
     /\ ~HasLegalMove(turn))
        => winner = (IF InCheck(board, info, turn) THEN Other(turn) ELSE DRAW)

\* checkmate
C8_Witness ==
    /\ AfterMakeMove
    /\ ~HasLegalMove(turn)
    /\ InCheck(board, info, turn)
    /\ winner = Other(turn)

MinorPieces == {q \in DOMAIN info : info[q].kind \in {"Bishop", "Knight"}}

NoPawnRookQueen ==
    \A q \in DOMAIN info : info[q].kind \notin {"Pawn", "Rook", "Queen"}

SameSidePair ==
    Cardinality(MinorPieces) = 2
    /\ \A p1, p2 \in MinorPieces : info[p1].player = info[p2].player

\* C9: a make_move that leaves no pawn, rook or queen and at most two minor
\* pieces returns normally with the game drawn, bare kings included.  (Two
\* minor pieces of one player are the case C10 is about and are left out.)
C9_InsufficientMaterial ==
    (/\ AfterMakeMove
     /\ NoPawnRookQueen
     /\ Cardinality(MinorPieces) <= 2
     /\ ~SameSidePair)
        => (winner = DRAW /\ raised = "none")

\* C10: when the insufficient-material rule is reached with no pawn, rook or
\* queen and one or two minor pieces, it draws iff there is one minor piece
\* or the two belong to opposite players.
C10_MinorPieces ==
    (/\ AfterMakeMove
     /\ raised = "none"
     /\ Count(prev_positions, Signature) < 3
     /\ HasLegalMove(turn)
     /\ NoPawnRookQueen
     /\ Cardinality(MinorPieces) \in {1, 2})
        => (winner = DRAW <=> ~SameSidePair)

\* two minor pieces of one player and the game goes on
C10_Witness ==
    /\ AfterMakeMove
    /\ NoPawnRookQueen
    /\ SameSidePair
    /\ winner = None

BishopOf(player) ==
    {q \in DOMAIN info : info[q].kind = "Bishop" /\ info[q].player = player}

\* the kings and one bishop per player, the bishops on squares of different
\* colours, left by a make_move that neither repetition nor the
\* checkmate/stalemate rule decided
MismatchedBishops ==
    /\ AfterMakeMove
    /\ raised = "none"
    /\ Count(prev_positions, Signature) < 3
    /\ HasLegalMove(turn)
    /\ NoPawnRookQueen
    /\ Cardinality(MinorPieces) = 2
    /\ Cardinality(BishopOf(WHITE)) = 1 /\ Cardinality(BishopOf(BLACK)) = 1
    /\ \E w \in BishopOf(WHITE), b \in BishopOf(BLACK) :
          (info[w].file + info[w].rank) % 2 # (info[b].file + info[b].rank) % 2

\* C11 as stated: with one bishop per player on squares of different colours
\* the insufficient-material rule leaves winner unset.
C11_MismatchedNotDrawn == MismatchedBishops => winner = None

\* C11: with one bishop per player the insufficient-material rule declares
\* the draw whatever the colours of the bishops' squares, the two pieces
\* belonging to different players.
C11_MismatchedDrawn == MismatchedBishops => winner = DRAW

\* Kxg6 has left the bishops on e3 and b3 and the game is drawn
C11_Witness == MismatchedBishops /\ winner = DRAW /\ last.captured.kind = "Knight"

\* C12: every make_move hands the turn to the other player and records the
\* move it was given as previous_move (for castling the king's move, the
\* nested rook move changing neither).
C12_TurnAlternates ==
    [][/\ turn' = Other(turn)
       /\ previous_move' = last'.move
       /\ last'.player = turn
       /\ last'.castles =>
            /\ info[last'.piece].kind = "King"
            /\ Abs(previous_move'.target_file - previous_move'.initial_file) = 2]_vars

C13_CastlingDecides == last.castles /\ winner = last.player

KingsOf(player) ==
    {q \in OnBoard(board) : info[q].kind = "King" /\ info[q].player = player}

\* C14: the grid holds one king per player, _white_king and _black_king are
\* those pieces on the squares their info names, and no move yielded to the
\* player whose turn it is captures a king.
C14_OneKingEach ==
    /\ \A player \in {WHITE, BLACK} :
          /\ KingsOf(player) = {KingOf(player)}
          /\ PieceAt(board, info[KingOf(player)].file,
                     info[KingOf(player)].rank) = KingOf(player)
    /\ \A p \in Pieces(turn) :
          \A m \in LegalMoves(p) :
             /\ m.capture # NoPiece => info[m.capture].kind # "King"
             /\ PieceAt(board, m.target_file, m.target_rank) \notin
                    {white_king, black_king}

\* both kings have been moved by make_move, one of them by castling, and a
\* capture is on offer to the player to move, whose king is in check
C14_Witness ==
    /\ {white_king, black_king} \subseteq moved
    /\ info[white_king].file = 7 /\ info[white_king].rank = 1
    /\ \E p \in Pieces(turn) : \E m \in LegalMoves(p) : m.capture # NoPiece

\* every occupant of grid b is a live piece whose info names that cell, and
\* every live piece stands in range on the cell its info names
GridMatchesInfo(b, inf) ==
    /\ \A r \in 1..8, f \in 1..8 :
          b[r][f] # NoPiece =>
             /\ b[r][f] \in DOMAIN inf
             /\ inf[b[r][f]].file = f /\ inf[b[r][f]].rank = r
    /\ \A q \in DOMAIN inf :
          /\ InRange(inf[q].file, inf[q].rank)
          /\ b[inf[q].rank][inf[q].file] = q

\* C15: after construction, after every make_move and after every is_valid
\* call each grid cell's piece has that cell as its square, each live piece
\* is in exactly the cell of its square, within range, and destroyed pieces
\* are in no cell.
C15_GridMatchesInfo ==
    /\ GridMatchesInfo(board, info)
    /\ \A p \in OnBoard(board) :
          \A c \in Candidates(Position, previous_move, p) :
             IsValidPre(Position, c) =>
                \A r \in {LogicalMove(Position, c)} :
                   \A u \in {LogicalUnmove([board |-> r.board,
                                            info |-> r.info], r.move)} :
                      GridMatchesInfo(u.board, u.info)

\* a pawn has captured onto the far rank and was promoted: pawn and victim
\* are gone and the new piece stands on the square
C15_Witness ==
    /\ AfterMakeMove
    /\ last.move.promotion # None
    /\ last.move.capture # NoPiece
    /\ {last.piece, last.move.capture} \cap (DOMAIN info \cup OnBoard(board)) = {}
    /\ PieceAt(board, last.move.target_file, last.move.target_rank) = next_id - 1

\* what checkmate, stalemate and the material rule make of the position on
\* the board, the player `turn` being the one to move
WinnerOfPosition ==
    IF ~HasLegalMove(turn)
    THEN IF InCheck(board, info, turn) THEN Other(turn) ELSE DRAW
    ELSE IF NoPawnRookQueen /\ Cardinality(MinorPieces) \in {1, 2}
            /\ ~SameSidePair
         THEN DRAW ELSE None

\* C16: after the make_move of a promotion with kind K the target square
\* holds a new piece of kind K of the mover, the pawn is gone, and winner is
\* what the end-state rules give with the promoted piece on the board.
C16_Promotion ==
    (AfterMakeMove /\ last.move.promotion # None) =>
        LET q == PieceAt(board, last.move.target_file, last.move.target_rank)
        IN  /\ raised = "none"
            /\ q # NoPiece /\ q # last.piece /\ q = next_id - 1
            /\ info[q].kind = last.move.promotion
            /\ info[q].player = last.player
            /\ info[q].file = last.move.target_file
            /\ info[q].rank = last.move.target_rank
            /\ last.piece \notin DOMAIN info \cup OnBoard(board)
            /\ Count(prev_positions, Signature) < 3 =>
                    winner = WinnerOfPosition

\* e7-e8 promoting to a rook has mated the king on h8
C16_Witness ==
    /\ AfterMakeMove
    /\ last.move.promotion = "Rook"
    /\ InCheck(board, info, turn)
    /\ winner = last.player

\* e7-e8 promoting to a knight has left king and knight against the king
C16_Underpromotion ==
    /\ AfterMakeMove
    /\ last.move.promotion = "Knight"
    /\ HasLegalMove(turn)
    /\ winner = DRAW

\* the squares some yielded move of piece p leads to
Targets(p) == {<<m.target_file, m.target_rank>> : m \in LegalMoves(p)}

BoardUnchanged ==
    UNCHANGED <<board, info, turn, winner, previous_move, prev_positions>>

\* C17: request_move and get_move with a target square no yielded move of
\* the selected piece leads to apply nothing and raise nothing, and what the
\* human's clicks apply is a move possible_moves yielded for that piece.
C17_IllegalTargetIgnored ==
    [][/\ (event'.kind = "request"
           /\ <<event'.file, event'.rank>> \notin Targets(selected)) =>
              /\ BoardUnchanged
              /\ raised' = "none"
              /\ promotion_pending' = NoMove
       /\ (event'.kind = "get_move"
           /\ <<event'.file, event'.rank>> \notin Targets(opp_selected)) =>
              /\ BoardUnchanged
              /\ raised' = "none"
              /\ opp_move' = NoMove
       /\ (event'.kind = "request" /\ ply' # ply) =>
              last'.move \in LegalMoves(selected)
       /\ (event'.kind = "promotion" /\ ply' # ply) =>
              [last'.move EXCEPT !.promotion = None] \in LegalMoves(last'.piece)
      ]_vars

\* a piece was selected and the click on a square of the board was ignored
C17_Witness ==
    /\ event.kind = "request"
    /\ InRange(event.file, event.rank)
    /\ ply = 0
    /\ promotion_pending = NoMove

\* C18: while a promotion is pending a click that picks none of the offered
\* pieces applies nothing, clears the selection and raises nothing; the
\* pending move is applied, with the picked kind, only by a click on one of
\* the offered pieces.
C18_PromotionSelection ==
    [][promotion_pending # NoMove =>
        /\ (event'.kind = "promotion" /\ event'.on # "prop") =>
              /\ BoardUnchanged
              /\ raised' = "none"
              /\ selected' = NoPiece
        /\ (event'.kind = "promotion" /\ event'.on = "prop") =>
              /\ event'.choice \in PromotionKinds
              /\ last'.move = [promotion_pending EXCEPT
                                  !.promotion = event'.choice]
              /\ ply' = ply + 1
        /\ ply' # ply => (event'.kind = "promotion" /\ event'.on = "prop")
      ]_vars

\* the click hit a piece on the board while the promotion was pending, and
\* it still is
C18_Witness ==
    /\ event.kind = "promotion"
    /\ event.on = "piece"
    /\ promotion_pending # NoMove
    /\ selected = NoPiece
    /\ ply = 0

\* C19: once the worker running think has failed, the opponent's state
\* (thinking, move) is not the one of an opponent still thinking.
C19_FailureSignalled ==
    worker = "failed" => <<thinking, opp_move>> # <<TRUE, NoMove>>

\* C20: the string make_move builds for a move is parsed by get_best_move
\* into a Move with the same squares and promotion kind.
C20_WireRoundTrip ==
    wire_pc \notin {"move", "sent"} =>
        (wire_pc = "parsed" /\ wire_out = wire_move)

\* the material on the board is what the insufficient-material rule draws
MaterialDraws ==
    /\ NoPawnRookQueen
    /\ Cardinality(MinorPieces) \in {1, 2}
    /\ ~SameSidePair

\* C21: whenever, after a make_move has returned, the player to move has a
\* legal move as possible_moves generates it (an en-passant capture of the
\* pawn just double-pushed included), winner was not set by the checkmate /
\* stalemate rule: it is unset, or repetition or material has drawn the game.
C21_EndJudgedInPositionFaced ==
    (/\ AfterMakeMove
     /\ raised = "none"
     /\ HasLegalMove(turn)
     /\ winner # None)
        => \/ Count(prev_positions, Signature) >= 3
           \/ winner = DRAW /\ MaterialDraws

FarRank(player) == IF player = WHITE THEN 8 ELSE 1

\* C22: where every pawn move onto the far rank carries a promotion kind, no
\* pawn stands on its far rank and every Move a piece generator builds and
\* passes to is_valid has its destination on the board.
C22_GeneratorsStayInRange ==
    \A q \in OnBoard(board) :
        /\ info[q].kind = "Pawn" => info[q].rank # FarRank(info[q].player)
        /\ \A c \in Candidates(Position, previous_move, q) :
                InRange(c.target_file, c.target_rank)

\* a pawn has just moved onto the far rank and was promoted; a pawn of the
\* other player stands on an edge file
C22_Witness ==
    /\ AfterMakeMove
    /\ last.move.promotion # None
    /\ last.move.target_rank = FarRank(last.player)
    /\ \E q \in OnBoard(board) :
            info[q].kind = "Pawn" /\ info[q].file \in {1, 8}

\* the capture of a generated move comes from exactly one source: the enemy
\* piece on the destination, or the enemy pawn beside the mover with the
\* destination empty
ExclusiveSources ==
    \A p \in Pieces(turn) : \A m \in LegalMoves(p) :
        LET target == PieceAt(board, m.target_file, m.target_rank) IN
        IF m.capture = NoPiece THEN target = NoPiece
        ELSE /\ info[m.capture].player = Other(turn)
             /\ \/ target = m.capture /\ ~IsEnPassantMove(m)
                \/ /\ target = NoPiece
                   /\ IsEnPassantMove(m)
                   /\ info[p].kind = "Pawn"
                   /\ info[m.capture].kind = "Pawn"
                   /\ info[m.capture].file = m.target_file
                   /\ info[m.capture].rank = m.initial_rank

\* what one make_move takes off the board
OneCapture ==
    LET captured == last'.move.capture
        gone == (OnBoard(board) \ OnBoard(board')) \ {last'.piece}
        drop == IF captured = NoPiece THEN 0 ELSE 1
    IN  /\ gone = (IF captured = NoPiece THEN {} ELSE {captured})
        /\ captured # NoPiece => info[captured].player = Other(turn)
        /\ Cardinality(OnBoard(board')) = Cardinality(OnBoard(board)) - drop
        /\ Cardinality(DOMAIN info') = Cardinality(DOMAIN info) - drop

\* C23: the capture of every generated move has one source, the enemy piece
\* on the destination or an en-passant pawn with the destination empty, and
\* each make_move removes at most one piece, an opponent's, the number of
\* pieces dropping by one on a capture and staying the same otherwise.
C23_OneCapturePerMove ==
    []ExclusiveSources /\ [][OneCapture]_vars

\* an en-passant capture has been made and the captured pawn is gone
C23_Witness ==
    /\ LastWasEnPassant
    /\ last.move.capture \notin OnBoard(board) \cup DOMAIN info
    /\ IsEmpty(board, last.captured.file, last.captured.rank)

Squares == (1..8) \X (1..8)

\* the squares a piece of the given kind and player standing on (f, r)
\* attacks by its movement pattern: a knight the squares one hop away, king
\* and pawn adjacent squares, the others every square along their
\* directions up to and including the first occupied one
AttackSet(b, kind, player, f, r) ==
    LET steps == (((-1)..1) \X ((-1)..1)) \ {<<0, 0>>}
        diagonals == {d \in steps : d[1] # 0 /\ d[2] # 0}
        straights == steps \ diagonals
        hops == {d \in ((-2)..2) \X ((-2)..2) : Abs(d[1]) * Abs(d[2]) = 2}
        step(ds) == {<<f + d[1], r + d[2]>> : d \in ds} \cap Squares
        slide(ds) ==
            {<<f + x[2] * x[1][1], r + x[2] * x[1][2]>> :
                x \in {y \in ds \X (1..7) :
                        /\ InRange(f + y[2] * y[1][1], r + y[2] * y[1][2])
                        /\ \A j \in 1..(y[2] - 1) :
                              b[r + j * y[1][2]][f + j * y[1][1]] = NoPiece}}
    IN  CASE kind = "Knight" -> step(hops)
          [] kind = "Bishop" -> slide(diagonals)
          [] kind = "Rook" -> slide(straights)
          [] kind = "Queen" -> slide(steps)
          [] kind = "King" -> step(steps)
          [] kind = "Pawn" -> step({<<-1, Forward(player)>>,
                                    <<1, Forward(player)>>})

Occupied(b) == {sq \in Squares : b[sq[2]][sq[1]] # NoPiece}

\* the squares the pieces of a player on the grid attack
Attacks(b, inf, player) ==
    UNION {AttackSet(b, inf[b[sq[2]][sq[1]]].kind, player, sq[1], sq[2]) :
            sq \in {o \in Occupied(b) : inf[b[o[2]][o[1]]].player = player}}

\* is_controlled and in_check agree with the movement patterns on the
\* position pos
ControlIsAttack(pos) ==
    \A player \in {WHITE, BLACK} :
        \E attacked \in {Attacks(pos.board, pos.info, Other(player))} :
            /\ {sq \in Squares : IsControlled(pos.board, pos.info, sq[1],
                                              sq[2], Other(player))}
                    = attacked
            /\ \A sq \in Occupied(pos.board) :
                 LET piece == pos.board[sq[2]][sq[1]] IN
                 (pos.info[piece].kind = "King"
                  /\ pos.info[piece].player = player)
                    => (InCheck(pos.board, pos.info, player)
                            <=> sq \in attacked)

\* the positions is_valid looks at while it tries the candidate moves of the
\* player to move
Speculative ==
    {[board |-> r.board, info |-> r.info] :
        r \in {LogicalMove(Position, c) :
                c \in {m \in UNION {Candidates(Position, previous_move, p) :
                                        p \in Pieces(turn)} :
                            IsValidPre(Position, m)}}}

\* C24: on every board, the boards of is_valid's speculation included,
\* is_controlled(S, P) is true iff some piece of P attacks S by its movement
\* pattern (knight hop, unobstructed diagonal or line, adjacent king, pawn
\* one rank behind S in P's direction on an adjacent file), and in_check is
\* is_controlled by the opponent at the square of the player's king.
C24_ControlIsAttack ==
    \A pos \in {Position} \cup Speculative : ControlIsAttack(pos)

\* a check has been given and is_valid turns down a reply that leaves the
\* king attacked
C24_Witness ==
    /\ AfterMakeMove
    /\ InCheck(board, info, turn)
    /\ \E pos \in Speculative : InCheck(pos.board, pos.info, turn)
    /\ \E pos \in Speculative : ~InCheck(pos.board, pos.info, turn)

\* a step in which Board.make_move ran
MoveApplied == ply' # ply

\* C25: under every interleaving of the main loop with the worker running
\* Opponent.think, a make_move during the opponent's turn is made by
\* handle_turn and by nothing else, handle_turn makes none during the
\* human's turn, one think task is scheduled per turn of the opponent, and
\* handle_turn applies one move and then resets thinking to false and move
\* to None.
C25_OpponentMovesOnMainLoop ==
    [][/\ MoveApplied =>
            ((event'.kind = "opponent") <=> (turn = Other(scene_player)))
       /\ (MoveApplied /\ turn = Other(scene_player)) =>
            /\ thinking /\ opp_move # NoMove
            /\ worker = "idle" /\ tasks = 1
            /\ ply' = ply + 1
            /\ last'.move = [opp_move EXCEPT !.capture = last'.move.capture]
            /\ ~thinking' /\ opp_move' = NoMove
       /\ tasks' <= 1
       /\ worker' = "running" =>
            (thinking' /\ tasks' = 1 /\ turn' = Other(scene_player))]_vars

\* C26: once winner is set no step of GameScene applies a move or touches
\* the selection, a pending promotion or the opponent: clicks return at
\* once, update() no longer calls handle_turn, and each update() only adds
\* the step to the fade opacity, game_over becoming true when it is full.
C26_NoMoveAfterWinner ==
    [][winner # None =>
        /\ UNCHANGED boardVars
        /\ UNCHANGED <<scene_player, selected, promotion_pending,
                       promotion_props, opponent, thinking, opp_move,
                       opp_selected, worker, tasks>>
        /\ ~game_over
        /\ fade_opacity' = fade_opacity + FadeOpacityStep
        /\ game_over' = (fade_opacity' >= FadeFull)]_vars

\* the opponent's capture has drawn the game with the human to move, and
\* the fade has run to the end
C26_Witness ==
    /\ winner = DRAW
    /\ turn = scene_player
    /\ HasLegalMove(turn)
    /\ fade_opacity = FadeFull
    /\ game_over

\* C27: the end-state rules apply in the order repetition, checkmate /
\* stalemate, material, and the first that matches decides winner: a third
\* occurrence draws; else a player to move without a legal move is mated or
\* stalemated, mated even when the material left would draw; else material
\* that cannot mate draws.
C27_FirstRuleDecides ==
    AfterMakeMove =>
        IF Count(prev_positions, Signature) >= 3 THEN winner = DRAW
        ELSE IF ~HasLegalMove(turn)
        THEN winner = (IF InCheck(board, info, turn) THEN Other(turn)
                       ELSE DRAW)
        ELSE MaterialDraws => winner = DRAW

\* a capture has mated and left one minor piece each
C27_Witness ==
    /\ AfterMakeMove
    /\ last.move.capture # NoPiece
    /\ ~HasLegalMove(turn) /\ InCheck(board, info, turn)
    /\ MaterialDraws
    /\ winner = last.player

\* the last make_move moved a pawn to the next file onto a square that held
\* nothing: an en-passant capture
EnPassantMade ==
    /\ AfterMakeMove
    /\ last.piece \in DOMAIN info
    /\ info[last.piece].kind = "Pawn"
    /\ last.move.initial_file # last.move.target_file
    /\ \/ last.captured = NoCapture
       \/ last.captured.rank # last.move.target_rank

\* C28: an en-passant capture applied by make_move takes the captured pawn,
\* which stands beside the mover's square of origin, off the grid, whether
\* the Move came from Pawn.possible_moves or, with no capture recorded, from
\* Stockfish.get_best_move through Opponent.handle_turn.
C28_EnPassantRemovesPawn ==
    EnPassantMade =>
        /\ IsEmpty(board, last.move.target_file, last.move.initial_rank)
        /\ last.captured.kind = "Pawn"
        /\ last.captured.player = Other(last.player)

InitialLayout == Sig(InitEntities)

\* C29: construction counts no signature, so the count of the standard
\* layout is the number of moves that have re-created it, and a move that
\* re-creates it draws the game iff it is the third to do so.
C29_ConstructionNotCounted ==
    /\ (ply = 0 /\ previous_move = NoMove) => prev_positions = NoCounts
    /\ Signature = InitialLayout =>
        /\ Count(prev_positions, InitialLayout)
                = Count(occurrences, InitialLayout)
        /\ AfterMakeMove =>
                (winner = DRAW <=> Count(occurrences, InitialLayout) >= 3)

\* the third move to re-create the standard layout has drawn the game
C29_Witness ==
    /\ AfterMakeMove
    /\ Signature = InitialLayout
    /\ Count(prev_positions, InitialLayout) = 3
    /\ winner = DRAW

\* the layout stands for the third time, the second move to re-create it
\* having just been made, and the game goes on
C29_ThirdStanding ==
    /\ AfterMakeMove
    /\ Signature = InitialLayout
    /\ Count(prev_positions, InitialLayout) = 2
    /\ winner = None

====
